---- MODULE Spec2Model ----
(***************************************************************************)
(* Student registry canister (src/src/index.ts): a StableBTreeMap of       *)
(* Student records keyed by a uuid, with create / read / update / delete   *)
(* handlers and a ranked top-N query.                                      *)
(*                                                                         *)
(* Representation                                                          *)
(*  - text values that the code inspects (course) are sequences of         *)
(*    one-character strings, so that toLowerCase is computed per character;*)
(*    name is never inspected and is a plain string.                       *)
(*  - ids are the integers of Ids; their order stands for the key order    *)
(*    of the uuid strings in the StableBTreeMap.                           *)
(*  - cgpa and count are nat64 values that the code converts with          *)
(*    Number(); they are kept as two limbs [hi, lo] of value               *)
(*    hi * 2^27 + lo (range 0 .. 2^54 - 1), so that the 53-bit mantissa of *)
(*    the conversion is modelled at its real width.                        *)
(*  - a record is a function from field names to values; a field the       *)
(*    Student schema does not declare is absent from its DOMAIN.           *)
(***************************************************************************)
EXTENDS Integers, Sequences, FiniteSets, TLC

\* ---------------------------------------------------------------- bounds
\* ic.time() is read from a clock that runs 0 .. MaxTime
MaxTime == 1
\* getTopStudents is called with count 0 .. MaxCount (and one huge count)
MaxCount == 2

\* ---------------------------------------------------------------- nat64
Limb == 2^27

N(k) == [hi |-> 0, lo |-> k]

\* 2^53 and 2^53 + 1: the first nat64 values Number() cannot tell apart
Two53 == [hi |-> 2^26, lo |-> 0]
Two53p1 == [hi |-> 2^26, lo |-> 1]

\* exact order of two nat64 values
Lt64(x, y) == x.hi < y.hi \/ (x.hi = y.hi /\ x.lo < y.lo)
Le64(x, y) == x = y \/ Lt64(x, y)

\* Number(bigint): the nearest double, ties to the even mantissa.  Below 2^53
\* every integer is a double; in 2^53 .. 2^54 - 1 only the even ones are.
Number(x) ==
    IF x.hi < 2^26 THEN x
    ELSE IF x.lo % 4 = 1 THEN [hi |-> x.hi, lo |-> x.lo - 1]
    ELSE IF x.lo % 4 = 3
         THEN IF x.lo + 1 = Limb THEN [hi |-> x.hi + 1, lo |-> 0]
                                 ELSE [hi |-> x.hi, lo |-> x.lo + 1]
    ELSE x

\* ---------------------------------------------------------------- text
UpperChars == <<"A","B","C","D","E","F","G","H","I","J","K","L","M",
                "N","O","P","Q","R","S","T","U","V","W","X","Y","Z">>
LowerChars == <<"a","b","c","d","e","f","g","h","i","j","k","l","m",
                "n","o","p","q","r","s","t","u","v","w","x","y","z">>

\* the lower-case form of each upper-case letter
LowerOf ==
    [c \in {UpperChars[i] : i \in DOMAIN UpperChars} |->
        LowerChars[CHOOSE i \in DOMAIN UpperChars : UpperChars[i] = c]]

LowerChar(c) == IF c \in DOMAIN LowerOf THEN LowerOf[c] ELSE c

\* String.prototype.toLowerCase
toLowerCase(s) == [i \in DOMAIN s |-> LowerChar(s[i])]

\* Array.prototype.includes
includes(arr, x) == \E i \in DOMAIN arr : arr[i] = x

COURSE_TYPES ==
    << <<"a","c","c","o","u","n","t","i","n","g">>,
       <<"i","n","f","o","r","m","a","t","i","o","n"," ","t","e","c","h">>,
       <<"m","e","d","i","c","i","n","e">>,
       <<"e","n","g","i","n","e","e","r">>,
       <<"f","a","r","m","i","n","g">> >>

\* ---------------------------------------------------------------- inputs
Ids == {1, 2}
Callers == {"alice", "bob"}
Cgpas == {N(3), N(9)}

Medicine == <<"M","e","d","i","c","i","n","e">>
farming == <<"f","a","r","m","i","n","g">>
astronomy == <<"a","s","t","r","o","n","o","m","y">>
EmptyText == <<>>

\* the (name, course, level, cgpa) arguments the handlers are called with: a
\* mixed-case valid course, a lower-case valid course with an empty name, a
\* course outside COURSE_TYPES, and an empty course
Payloads ==
    { [name |-> "Jo", course |-> Medicine, level |-> 1, cgpa |-> N(3)],
      [name |-> "", course |-> farming, level |-> 2, cgpa |-> N(9)],
      [name |-> "Al", course |-> astronomy, level |-> 1, cgpa |-> N(9)],
      [name |-> "Al", course |-> EmptyText, level |-> 2, cgpa |-> N(3)] }
CgpaPayloads == [cgpa : Cgpas]

Counts == {N(k) : k \in 0..MaxCount} \cup {Two53p1}

\* ---------------------------------------------------------------- schema
\* const Student = Record({...})
StudentFields == {"id", "name", "course", "level", "cgpa", "createdAt", "lecturerId"}
\* const StudentPayload = Record({...})
StudentPayloadFields == {"name", "course", "level", "cgpa"}
\* const CgpaPayload = Record({...})
CgpaPayloadFields == {"cgpa"}

\* Candid encoding of a value as a Record type: the declared fields, no others
Encode(fields, v) == [f \in fields |-> v[f]]

\* { ...a, ...b }
Spread(a, b) == [f \in DOMAIN a \cup DOMAIN b |-> IF f \in DOMAIN b THEN b[f] ELSE a[f]]

Ok(v) == [tag |-> "Ok", val |-> v]
Err(kind, about) == [tag |-> "Err", kind |-> kind, about |-> about]

\* a handler declared with return type Result(Student, Errors): what the
\* caller receives is the handler's value in that encoding
ResultStudent(r) ==
    IF r.tag = "Ok" THEN Ok(Encode(StudentFields, r.val)) ELSE r

\* a handler declared with return type Result(Vec(Student), Errors)
ResultVecStudent(r) ==
    IF r.tag = "Ok" THEN Ok([i \in DOMAIN r.val |-> Encode(StudentFields, r.val[i])]) ELSE r

\* ---------------------------------------------------------------- state
VARIABLES students, issued, time, ret, calls
vars == <<students, issued, time, ret, calls>>

\* StableBTreeMap(text, Student, 0): values are stored in their Student encoding
insert(map, k, v) ==
    [x \in DOMAIN map \cup {k} |-> IF x = k THEN Encode(StudentFields, v) ELSE map[x]]

remove(map, k) == [x \in DOMAIN map \ {k} |-> map[x]]

containsKey(map, k) == k \in DOMAIN map

\* Opt(Student), as StableBTreeMap.get returns it
None == [tag |-> "None"]
Some(v) == [tag |-> "Some", val |-> v]

get(map, k) == IF k \in DOMAIN map THEN Some(map[k]) ELSE None

\* the update calls a client may have in flight at once, and a call not yet made
CallIds == {1, 2, 3}
Idle == [pc |-> "idle"]

RECURSIVE KeySeq(_)
KeySeq(S) ==
    IF S = {} THEN <<>>
    ELSE LET m == CHOOSE x \in S : \A y \in S : x <= y
         IN <<m>> \o KeySeq(S \ {m})

\* StableBTreeMap.values(): the values in key order
values(map) == [i \in 1..Cardinality(DOMAIN map) |-> map[KeySeq(DOMAIN map)[i]]]

Init ==
    /\ students = <<>>
    /\ issued = {}
    /\ time = 0
    /\ ret = [op |-> "none", res |-> Ok(<<>>)]
    /\ calls = [c \in CallIds |-> Idle]

\* the clock ic.time() reads never goes backwards
Tick ==
    /\ time < MaxTime
    /\ time' = time + 1
    /\ UNCHANGED <<students, issued, ret>>

\* createStudent, had it stored and returned the course in lower case
createStudent_Normalizes(id, name, course, level, cgpa, caller) ==
    /\ issued' = issued \cup {id}
    /\ IF ~includes(COURSE_TYPES, toLowerCase(course))
       THEN /\ ret' = [op |-> "createStudent", res |-> ResultStudent(Err("CourseDoesNotExist", course))]
            /\ UNCHANGED students
       ELSE LET user == [id |-> id, name |-> name, course |-> toLowerCase(course), level |-> level,
                         cgpa |-> cgpa, createdAt |-> time, lecturerId |-> caller]
            IN /\ students' = insert(students, user.id, user)
               /\ ret' = [op |-> "createStudent", res |-> ResultStudent(Ok(user))]
    /\ UNCHANGED time

\* createStudent, had it inserted the record before validating the course
createStudent_InsertsFirst(id, name, course, level, cgpa, caller) ==
    /\ issued' = issued \cup {id}
    /\ LET user == [id |-> id, name |-> name, course |-> course, level |-> level,
                    cgpa |-> cgpa, createdAt |-> time, lecturerId |-> caller]
       IN /\ students' = insert(students, user.id, user)
          /\ IF ~includes(COURSE_TYPES, toLowerCase(course))
             THEN ret' = [op |-> "createStudent", res |-> ResultStudent(Err("CourseDoesNotExist", course))]
             ELSE ret' = [op |-> "createStudent", res |-> ResultStudent(Ok(user))]
    /\ UNCHANGED time

\* createStudent, had it stored the lower-cased course and returned the input
createStudent_StoresLowerCase(id, name, course, level, cgpa, caller) ==
    /\ issued' = issued \cup {id}
    /\ IF ~includes(COURSE_TYPES, toLowerCase(course))
       THEN /\ ret' = [op |-> "createStudent", res |-> ResultStudent(Err("CourseDoesNotExist", course))]
            /\ UNCHANGED students
       ELSE LET user == [id |-> id, name |-> name, course |-> course, level |-> level,
                         cgpa |-> cgpa, createdAt |-> time, lecturerId |-> caller]
            IN /\ students' = insert(students, user.id, [user EXCEPT !.course = toLowerCase(course)])
               /\ ret' = [op |-> "createStudent", res |-> ResultStudent(Ok(user))]
    /\ UNCHANGED time

\* createStudent, had it numbered records by the size of the store instead of
\* keying them by the drawn id
createStudent_CountsIds(id, name, course, level, cgpa, caller) ==
    /\ issued' = issued \cup {id}
    /\ IF ~includes(COURSE_TYPES, toLowerCase(course))
       THEN /\ ret' = [op |-> "createStudent", res |-> ResultStudent(Err("CourseDoesNotExist", course))]
            /\ UNCHANGED students
       ELSE LET user == [id |-> Cardinality(DOMAIN students) + 1, name |-> name, course |-> course,
                         level |-> level, cgpa |-> cgpa, createdAt |-> time, lecturerId |-> caller]
            IN /\ students' = insert(students, user.id, user)
               /\ ret' = [op |-> "createStudent", res |-> ResultStudent(Ok(user))]
    /\ UNCHANGED time

createStudent(id, name, course, level, cgpa, caller) ==
    /\ issued' = issued \cup {id}
    /\ IF ~includes(COURSE_TYPES, toLowerCase(course))
       THEN /\ ret' = [op |-> "createStudent", res |-> ResultStudent(Err("CourseDoesNotExist", course))]
            /\ UNCHANGED students
       ELSE LET user == [id |-> id, name |-> name, course |-> course, level |-> level,
                         cgpa |-> cgpa, createdAt |-> time, lecturerId |-> caller]
            IN /\ students' = insert(students, user.id, user)
               /\ ret' = [op |-> "createStudent", res |-> ResultStudent(Ok(user))]
    /\ UNCHANGED time

\* getAllStudents, had it left out the first value of the enumeration
getAllStudents_SkipsFirst ==
    /\ LET all == values(students)
           allStudents == IF all = <<>> THEN <<>> ELSE Tail(all)
       IN IF Len(allStudents) = 0
          THEN ret' = [op |-> "getAllStudents", res |-> ResultVecStudent(Err("UserDoesNotExist", "No students found"))]
          ELSE ret' = [op |-> "getAllStudents", res |-> ResultVecStudent(Ok(allStudents))]
    /\ UNCHANGED <<students, issued, time>>

getAllStudents ==
    /\ LET allStudents == values(students)
       IN IF Len(allStudents) = 0
          THEN ret' = [op |-> "getAllStudents", res |-> ResultVecStudent(Err("UserDoesNotExist", "No students found"))]
          ELSE ret' = [op |-> "getAllStudents", res |-> ResultVecStudent(Ok(allStudents))]
    /\ UNCHANGED <<students, issued, time>>

\* updateStudent, had it validated the course before looking the id up
updateStudent_ValidatesFirst(id, payload) ==
    /\ IF payload.course # EmptyText /\ ~includes(COURSE_TYPES, toLowerCase(payload.course))
       THEN /\ ret' = [op |-> "updateStudent",
                       res |-> ResultStudent(Err("CourseDoesNotExist", payload.course))]
            /\ UNCHANGED students
       ELSE IF ~containsKey(students, id)
            THEN /\ ret' = [op |-> "updateStudent", res |-> ResultStudent(Err("UserDoesNotExist", id))]
                 /\ UNCHANGED students
            ELSE LET student == students[id]
                     updatedStudent == Spread(Spread(student, Encode(StudentPayloadFields, payload)),
                                              [updatedAt |-> time])
                 IN /\ students' = insert(students, updatedStudent.id, updatedStudent)
                    /\ ret' = [op |-> "updateStudent", res |-> ResultStudent(Ok(updatedStudent))]
    /\ UNCHANGED <<issued, time>>

updateStudent(id, payload) ==
    /\ IF ~containsKey(students, id)
       THEN /\ ret' = [op |-> "updateStudent", res |-> ResultStudent(Err("UserDoesNotExist", id))]
            /\ UNCHANGED students
       ELSE LET student == students[id]
            IN IF payload.course # EmptyText /\ ~includes(COURSE_TYPES, toLowerCase(payload.course))
               THEN /\ ret' = [op |-> "updateStudent",
                               res |-> ResultStudent(Err("CourseDoesNotExist", payload.course))]
                    /\ UNCHANGED students
               ELSE LET updatedStudent == Spread(Spread(student, Encode(StudentPayloadFields, payload)),
                                                  [updatedAt |-> time])
                    IN /\ students' = insert(students, updatedStudent.id, updatedStudent)
                       /\ ret' = [op |-> "updateStudent", res |-> ResultStudent(Ok(updatedStudent))]
    /\ UNCHANGED <<issued, time>>

getStudentById(id) ==
    /\ IF ~containsKey(students, id)
       THEN ret' = [op |-> "getStudentById", res |-> ResultStudent(Err("UserDoesNotExist", id))]
       ELSE LET user == students[id]
            IN ret' = [op |-> "getStudentById", res |-> ResultStudent(Ok(user))]
    /\ UNCHANGED <<students, issued, time>>

\* deleteStudentRecord, had it read the record without removing it
deleteStudentRecord_KeepsRecord(id) ==
    /\ IF ~containsKey(students, id)
       THEN /\ ret' = [op |-> "deleteStudentRecord", res |-> ResultStudent(Err("UserDoesNotExist", id))]
            /\ UNCHANGED students
       ELSE /\ UNCHANGED students
            /\ ret' = [op |-> "deleteStudentRecord", res |-> ResultStudent(Ok(students[id]))]
    /\ UNCHANGED <<issued, time>>

\* deleteStudentRecord, had it cleared the whole map
deleteStudentRecord_RemovesAll(id) ==
    /\ IF ~containsKey(students, id)
       THEN /\ ret' = [op |-> "deleteStudentRecord", res |-> ResultStudent(Err("UserDoesNotExist", id))]
            /\ UNCHANGED students
       ELSE /\ students' = <<>>
            /\ ret' = [op |-> "deleteStudentRecord", res |-> ResultStudent(Ok(students[id]))]
    /\ UNCHANGED <<issued, time>>

\* deleteStudentRecord, had it reported the error kind of the interface file
deleteStudentRecord_StaleKind(id) ==
    /\ IF ~containsKey(students, id)
       THEN /\ ret' = [op |-> "deleteStudentRecord", res |-> ResultStudent(Err("WorkoutDoesNotExist", id))]
            /\ UNCHANGED students
       ELSE /\ students' = remove(students, id)
            /\ ret' = [op |-> "deleteStudentRecord", res |-> ResultStudent(Ok(students[id]))]
    /\ UNCHANGED <<issued, time>>

deleteStudentRecord(id) ==
    /\ IF ~containsKey(students, id)
       THEN /\ ret' = [op |-> "deleteStudentRecord", res |-> ResultStudent(Err("UserDoesNotExist", id))]
            /\ UNCHANGED students
       ELSE /\ students' = remove(students, id)
            /\ ret' = [op |-> "deleteStudentRecord", res |-> ResultStudent(Ok(students[id]))]
    /\ UNCHANGED <<issued, time>>

\* updateGrade, had it stamped createdAt instead of leaving it alone
updateGrade_RestampsCreatedAt(id, payload) ==
    /\ IF ~containsKey(students, id)
       THEN /\ ret' = [op |-> "updateGrade", res |-> ResultStudent(Err("UserDoesNotExist", id))]
            /\ UNCHANGED students
       ELSE LET student == students[id]
                updatedGrade == Spread(Spread(student, Encode(CgpaPayloadFields, payload)),
                                       [createdAt |-> time])
            IN /\ students' = insert(students, updatedGrade.id, updatedGrade)
               /\ ret' = [op |-> "updateGrade", res |-> ResultStudent(Ok(updatedGrade))]
    /\ UNCHANGED <<issued, time>>

\* updateGrade, had it spread the payload under the stored record
updateGrade_SpreadReversed(id, payload) ==
    /\ IF ~containsKey(students, id)
       THEN /\ ret' = [op |-> "updateGrade", res |-> ResultStudent(Err("UserDoesNotExist", id))]
            /\ UNCHANGED students
       ELSE LET student == students[id]
                updatedGrade == Spread(Spread(Encode(CgpaPayloadFields, payload), student),
                                       [updatedAt |-> time])
            IN /\ students' = insert(students, updatedGrade.id, updatedGrade)
               /\ ret' = [op |-> "updateGrade", res |-> ResultStudent(Ok(updatedGrade))]
    /\ UNCHANGED <<issued, time>>

updateGrade(id, payload) ==
    /\ IF ~containsKey(students, id)
       THEN /\ ret' = [op |-> "updateGrade", res |-> ResultStudent(Err("UserDoesNotExist", id))]
            /\ UNCHANGED students
       ELSE LET student == students[id]
                updatedGrade == Spread(Spread(student, Encode(CgpaPayloadFields, payload)),
                                       [updatedAt |-> time])
            IN /\ students' = insert(students, updatedGrade.id, updatedGrade)
               /\ ret' = [op |-> "updateGrade", res |-> ResultStudent(Ok(updatedGrade))]
    /\ UNCHANGED <<issued, time>>

\* (a, b) => Number(b.cgpa) - Number(a.cgpa), as the sign the sort reads
compareFn(a, b) ==
    LET cgpaA == Number(a.cgpa)
        cgpaB == Number(b.cgpa)
    IN IF Lt64(cgpaA, cgpaB) THEN 1 ELSE IF Lt64(cgpaB, cgpaA) THEN -1 ELSE 0

\* an unstable sort: x goes before the elements the comparator calls equal
InsertSorted_BeforeEquals(s, x) ==
    LET after == {i \in 1..Len(s) : compareFn(s[i], x) >= 0}
        p == IF after = {} THEN Len(s) + 1 ELSE CHOOSE i \in after : \A j \in after : i <= j
    IN SubSeq(s, 1, p - 1) \o <<x>> \o SubSeq(s, p, Len(s))

\* Array.prototype.sort is stable: x goes before the first element that the
\* comparator orders after it
InsertSorted(s, x) ==
    LET after == {i \in 1..Len(s) : compareFn(s[i], x) > 0}
        p == IF after = {} THEN Len(s) + 1 ELSE CHOOSE i \in after : \A j \in after : i <= j
    IN SubSeq(s, 1, p - 1) \o <<x>> \o SubSeq(s, p, Len(s))

RECURSIVE sort(_)
sort(arr) ==
    IF arr = <<>> THEN <<>>
    ELSE InsertSorted(sort(SubSeq(arr, 1, Len(arr) - 1)), arr[Len(arr)])

\* slice, had it stopped one element early
slice_DropsLast(arr, count) ==
    LET n == Number(count)
        end == IF n.hi > 0 \/ n.lo > Len(arr) THEN Len(arr) ELSE n.lo
    IN SubSeq(arr, 1, end - 1)

\* Array.prototype.slice(0, Number(count))
slice(arr, count) ==
    LET n == Number(count)
        end == IF n.hi > 0 \/ n.lo > Len(arr) THEN Len(arr) ELSE n.lo
    IN SubSeq(arr, 1, end)

TopStudents(map, count) == slice(sort(values(map)), count)

\* getTopStudents, had it kept in the store only the records it returns
getTopStudents_Prunes(count) ==
    /\ LET topStudents == TopStudents(students, count)
       IN /\ IF Len(topStudents) = 0
             THEN ret' = [op |-> "getTopStudents",
                          res |-> ResultVecStudent(Err("UserDoesNotExist", "No top-performing students found"))]
             ELSE ret' = [op |-> "getTopStudents", res |-> ResultVecStudent(Ok(topStudents))]
          /\ students' = [id \in {topStudents[i].id : i \in 1..Len(topStudents)} |-> students[id]]
    /\ UNCHANGED <<issued, time>>

getTopStudents(count) ==
    /\ LET topStudents == TopStudents(students, count)
       IN IF Len(topStudents) = 0
          THEN ret' = [op |-> "getTopStudents",
                       res |-> ResultVecStudent(Err("UserDoesNotExist", "No top-performing students found"))]
          ELSE ret' = [op |-> "getTopStudents", res |-> ResultVecStudent(Ok(topStudents))]
    /\ UNCHANGED <<students, issued, time>>

\* each call is one message, run from its first line to its return
Next ==
    \/ Tick /\ UNCHANGED calls
    \/ /\ \E id \in Ids, p \in Payloads, caller \in Callers :
             createStudent(id, p.name, p.course, p.level, p.cgpa, caller)
       /\ UNCHANGED calls
    \/ getAllStudents /\ UNCHANGED calls
    \/ /\ \E id \in Ids, payload \in Payloads : updateStudent(id, payload)
       /\ UNCHANGED calls
    \/ /\ \E id \in Ids : getStudentById(id)
       /\ UNCHANGED calls
    \/ /\ \E id \in Ids : deleteStudentRecord(id)
       /\ UNCHANGED calls
    \/ /\ \E id \in Ids, payload \in CgpaPayloads : updateGrade(id, payload)
       /\ UNCHANGED calls
    \/ /\ \E count \in Counts : getTopStudents(count)
       /\ UNCHANGED calls

Spec == Init /\ [][Next]_vars

\* ------------------------------------------------- the ranked query alone
\* getTopStudents over every population of up to three records whose cgpa
\* ranges over small values and over the values around 2^53.
IdsTop == {1, 2, 3}
CgpasTop == {N(3), N(5), N(9), Two53, Two53p1}

StudentOf(id, cgpa) ==
    [id |-> id, name |-> "Jo", course |-> Medicine, level |-> 1, cgpa |-> cgpa,
     createdAt |-> 0, lecturerId |-> "alice"]

\* the stores that createStudent calls at time 0 leave behind
InitTop ==
    /\ \E D \in SUBSET IdsTop : \E g \in [D -> CgpasTop] :
          students = [id \in D |-> StudentOf(id, g[id])]
    /\ issued = DOMAIN students
    /\ time = 0
    /\ ret = [op |-> "none", res |-> Ok(<<>>)]
    /\ calls = [c \in CallIds |-> Idle]

NextTop ==
    \/ /\ \E count \in Counts : getTopStudents(count)
       /\ UNCHANGED calls
    \/ /\ \E id \in IdsTop, cgpa \in CgpasTop : updateGrade(id, [cgpa |-> cgpa])
       /\ UNCHANGED calls

SpecTop == InitTop /\ [][NextTop]_vars

\* ------------------------------------------- update calls in flight at once
\* A client sends updateStudent, updateGrade and deleteStudentRecord calls on
\* one stored record without waiting for the replies. The canister runs one
\* message at a time and hands over to another only where a handler awaits.
IdsConc == {1}

InitConc ==
    /\ students = [id \in IdsConc |-> StudentOf(id, N(3))]
    /\ issued = IdsConc
    /\ time = 0
    /\ ret = [op |-> "none", res |-> Ok(<<>>)]
    /\ calls = [c \in CallIds |-> Idle]

\* the client sends a call; it waits in the canister's queue
send(c, op, id, payload) ==
    /\ calls[c].pc = "idle"
    /\ calls' = [calls EXCEPT ![c] = [pc |-> "sent", op |-> op, id |-> id, payload |-> payload]]
    /\ UNCHANGED <<students, issued, time, ret>>

\* Awaits, had the update handlers awaited between their get and their insert
Awaits_AfterGet(op) == op \in {"updateStudent", "updateGrade"}

\* whether the handler of op gives up the canister between its students.get
\* and its students.insert: updateStudent and updateGrade are async functions
\* that await nothing
Awaits(op) == FALSE

\* a queued call starts when no started call holds the canister
CanStart(c) ==
    /\ calls[c].pc = "sent"
    /\ \A d \in CallIds \ {c} : calls[d].pc = "got" => Awaits(calls[d].op)

\* const studentOpt = students.get(id), the first line of both update handlers
update_get(c) ==
    /\ CanStart(c)
    /\ calls[c].op \in {"updateStudent", "updateGrade"}
    /\ calls' = [calls EXCEPT ![c] = [pc |-> "got", op |-> calls[c].op, id |-> calls[c].id,
                                      payload |-> calls[c].payload,
                                      studentOpt |-> get(students, calls[c].id)]]
    /\ UNCHANGED <<students, issued, time, ret>>

done(c) == [calls EXCEPT ![c] = [pc |-> "done", op |-> calls[c].op, id |-> calls[c].id,
                                 payload |-> calls[c].payload]]

\* updateStudent from its None check to its return
updateStudent_rest(c) ==
    /\ calls[c].pc = "got"
    /\ calls[c].op = "updateStudent"
    /\ LET id == calls[c].id
           payload == calls[c].payload
           studentOpt == calls[c].studentOpt
       IN IF studentOpt.tag = "None"
          THEN /\ ret' = [op |-> "updateStudent", res |-> ResultStudent(Err("UserDoesNotExist", id))]
               /\ UNCHANGED students
          ELSE LET student == studentOpt.val
               IN IF payload.course # EmptyText /\ ~includes(COURSE_TYPES, toLowerCase(payload.course))
                  THEN /\ ret' = [op |-> "updateStudent",
                                  res |-> ResultStudent(Err("CourseDoesNotExist", payload.course))]
                       /\ UNCHANGED students
                  ELSE LET updatedStudent == Spread(Spread(student, Encode(StudentPayloadFields, payload)),
                                                     [updatedAt |-> time])
                       IN /\ students' = insert(students, updatedStudent.id, updatedStudent)
                          /\ ret' = [op |-> "updateStudent", res |-> ResultStudent(Ok(updatedStudent))]
    /\ calls' = done(c)
    /\ UNCHANGED <<issued, time>>

\* updateGrade from its None check to its return
updateGrade_rest(c) ==
    /\ calls[c].pc = "got"
    /\ calls[c].op = "updateGrade"
    /\ LET id == calls[c].id
           payload == calls[c].payload
           studentOpt == calls[c].studentOpt
       IN IF studentOpt.tag = "None"
          THEN /\ ret' = [op |-> "updateGrade", res |-> ResultStudent(Err("UserDoesNotExist", id))]
               /\ UNCHANGED students
          ELSE LET student == studentOpt.val
                   updatedGrade == Spread(Spread(student, Encode(CgpaPayloadFields, payload)),
                                          [updatedAt |-> time])
               IN /\ students' = insert(students, updatedGrade.id, updatedGrade)
                  /\ ret' = [op |-> "updateGrade", res |-> ResultStudent(Ok(updatedGrade))]
    /\ calls' = done(c)
    /\ UNCHANGED <<issued, time>>

\* deleteStudentRecord is one students.remove and the test of what it returned
delete_run(c) ==
    /\ CanStart(c)
    /\ calls[c].op = "deleteStudentRecord"
    /\ deleteStudentRecord(calls[c].id)
    /\ calls' = done(c)

NextConc ==
    \/ \E c \in CallIds, id \in IdsConc, payload \in Payloads : send(c, "updateStudent", id, payload)
    \/ \E c \in CallIds, id \in IdsConc, payload \in CgpaPayloads : send(c, "updateGrade", id, payload)
    \/ \E c \in CallIds, id \in IdsConc : send(c, "deleteStudentRecord", id, <<>>)
    \/ \E c \in CallIds : update_get(c)
    \/ \E c \in CallIds : updateStudent_rest(c)
    \/ \E c \in CallIds : updateGrade_rest(c)
    \/ \E c \in CallIds : delete_run(c)

SpecConc == InitConc /\ [][NextConc]_vars

\* ---------------------------------------------------------------- claims
\* the courses among the inputs whose lower-cased form is in COURSE_TYPES
ValidCourses == {p.course : p \in {q \in Payloads : includes(COURSE_TYPES, toLowerCase(q.course))}}
ValidCourse(c) == c \in ValidCourses \/ (c \notin {p.course : p \in Payloads} /\ includes(COURSE_TYPES, toLowerCase(c)))

\* C1: createStudent called with a course whose lower-cased form is in
\* COURSE_TYPES succeeds and returns a record holding the inputs exactly as
\* given (the course not normalised), createdAt = the current time, no
\* updatedAt, and lecturerId = the caller.
C1_CreateReturnsInputs ==
    [][\A id \in Ids, p \in Payloads, caller \in Callers :
          (/\ ret'.op = "createStudent"
           /\ ValidCourse(p.course)
           /\ createStudent(id, p.name, p.course, p.level, p.cgpa, caller))
          => /\ ret'.res.tag = "Ok"
             /\ DOMAIN ret'.res.val = StudentFields
             /\ "updatedAt" \notin DOMAIN ret'.res.val
             /\ ret'.res.val.id = id
             /\ ret'.res.val.name = p.name
             /\ ret'.res.val.course = p.course
             /\ ret'.res.val.level = p.level
             /\ ret'.res.val.cgpa = p.cgpa
             /\ ret'.res.val.createdAt = time
             /\ ret'.res.val.lecturerId = caller]_vars

\* a create by bob at time 1 with the mixed-case course "Medicine" succeeded
C1_Witness ==
    /\ ret.op = "createStudent"
    /\ ret.res.tag = "Ok"
    /\ ret.res.val.course = Medicine
    /\ ret.res.val.course # toLowerCase(Medicine)
    /\ ret.res.val.lecturerId = "bob"
    /\ ret.res.val.createdAt = 1

\* C2: createStudent called with a course whose lower-cased form is not in
\* COURSE_TYPES fails with CourseDoesNotExist and leaves the store as it was.
C2_CreateRejectsInvalidCourse ==
    [][\A id \in Ids, p \in Payloads, caller \in Callers :
          (/\ ret'.op = "createStudent"
           /\ ~ValidCourse(p.course)
           /\ createStudent(id, p.name, p.course, p.level, p.cgpa, caller))
          => /\ ret'.res.tag = "Err"
             /\ ret'.res.kind = "CourseDoesNotExist"
             /\ students' = students]_vars

\* a rejected create on a store that holds a record, and an id that was
\* drawn for a rejected create and is still free
C2_Witness ==
    /\ ret.op = "createStudent"
    /\ ret.res.tag = "Err"
    /\ ret.res.kind = "CourseDoesNotExist"
    /\ ret.res.about = astronomy
    /\ 1 \in DOMAIN students
    /\ 2 \in issued \ DOMAIN students

\* C3: every record in the store has a course whose lower-cased form is in
\* COURSE_TYPES.
C3_StoredCourseValid ==
    \A id \in DOMAIN students : ValidCourse(students[id].course)

\* min(count, n) for a nat64 count and a population of n records
MinCount(count, n) == IF count.hi > 0 \/ count.lo > n THEN n ELSE count.lo

\* C4: getTopStudents(k) with min(k, population) > 0 returns a sequence of
\* length min(k, population), sorted by cgpa in non-increasing order, made of
\* records of the store with none repeated, each of whose cgpa is >= the cgpa
\* of every stored record that was not returned.
C4_TopNSortedAndMaximal ==
    [][\A count \in Counts :
          (/\ ret'.op = "getTopStudents"
           /\ MinCount(count, Cardinality(DOMAIN students)) > 0
           /\ getTopStudents(count))
          => /\ ret'.res.tag = "Ok"
             /\ LET r == ret'.res.val
                    n == MinCount(count, Cardinality(DOMAIN students))
                IN /\ Len(r) = n
                   /\ \A i \in 1..(n - 1) : Le64(r[i + 1].cgpa, r[i].cgpa)
                   /\ \A i \in 1..n : r[i].id \in DOMAIN students /\ students[r[i].id] = r[i]
                   /\ \A i, j \in 1..n : i # j => r[i].id # r[j].id
                   /\ \A i \in 1..n : \A id \in DOMAIN students :
                         (\A j \in 1..n : r[j].id # id) => Le64(students[id].cgpa, r[i].cgpa)]_vars

\* C5: a successful deleteStudentRecord(id) leaves no record under id; while
\* no record is stored under id, getStudentById(id) fails with
\* UserDoesNotExist, updateStudent, updateGrade and deleteStudentRecord on id
\* fail with UserDoesNotExist and leave the store alone, and only a
\* successful createStudent that draws id puts a record under id again.
C5_DeletionFinal ==
    [][\A id \in Ids :
          /\ (ret'.op = "deleteStudentRecord" /\ id \in DOMAIN students /\ deleteStudentRecord(id))
             => (ret'.res.tag = "Ok" /\ id \notin DOMAIN students')
          /\ id \notin DOMAIN students
             => /\ (ret'.op = "getStudentById" /\ getStudentById(id))
                   => (ret'.res.tag = "Err" /\ ret'.res.kind = "UserDoesNotExist")
                /\ (\/ ret'.op = "updateStudent" /\ \E p \in Payloads : updateStudent(id, p)
                    \/ ret'.op = "updateGrade" /\ \E p \in CgpaPayloads : updateGrade(id, p)
                    \/ ret'.op = "deleteStudentRecord" /\ deleteStudentRecord(id))
                   => /\ ret'.res.tag = "Err"
                      /\ ret'.res.kind = "UserDoesNotExist"
                      /\ students' = students
                /\ id \in DOMAIN students'
                   => (ret'.op = "createStudent" /\ ret'.res.tag = "Ok" /\ ret'.res.val.id = id)]_vars

\* a delete has just succeeded on a record created by bob at time 1, the
\* record is gone and another record is still stored
C5_Witness ==
    /\ ret.op = "deleteStudentRecord"
    /\ ret.res.tag = "Ok"
    /\ ret.res.val.id = 2
    /\ ret.res.val.lecturerId = "bob"
    /\ 2 \notin DOMAIN students
    /\ 1 \in DOMAIN students

\* the operations that write the store
Mutators == {"createStudent", "updateStudent", "updateGrade", "deleteStudentRecord"}

\* C6: the record createStudent returns is the record stored under its id;
\* getStudentById on a stored id returns the stored record; a stored record
\* changes only by a successful mutating call on its id; so getStudentById
\* right after a successful createStudent returns the created record in
\* every field.
C6_CreateGetRoundTrip ==
    [][\A id \in Ids :
          /\ (ret'.op = "createStudent" /\ ret'.res.tag = "Ok" /\ ret'.res.val.id = id)
             => (id \in DOMAIN students' /\ students'[id] = ret'.res.val)
          /\ (ret'.op = "getStudentById" /\ id \in DOMAIN students /\ getStudentById(id))
             => ret'.res = Ok(students[id])
          /\ (/\ ret.op = "createStudent" /\ ret.res.tag = "Ok" /\ ret.res.val.id = id
              /\ ret'.op = "getStudentById" /\ getStudentById(id))
             => ret'.res = Ok(ret.res.val)
          /\ (id \in DOMAIN students /\ (id \notin DOMAIN students' \/ students'[id] # students[id]))
             => (ret'.op \in Mutators /\ ret'.res.tag = "Ok" /\ ret'.res.val.id = id)]_vars

\* getStudentById has just returned the record bob created at time 1 under
\* id 2 with the mixed-case course
C6_Witness ==
    /\ ret.op = "getStudentById"
    /\ ret.res.tag = "Ok"
    /\ 2 \in DOMAIN students
    /\ ret.res.val = students[2]
    /\ ret.res.val.course = Medicine
    /\ ret.res.val.lecturerId = "bob"
    /\ ret.res.val.createdAt = 1

\* C7: after a successful updateStudent or updateGrade on id the resulting
\* record has an updatedAt, which is >= its createdAt and >= the updatedAt
\* it had before (when it had one).
C7_UpdateStampsUpdatedAt ==
    [][\A id \in Ids :
          (ret'.op \in {"updateStudent", "updateGrade"} /\ ret'.res.tag = "Ok" /\ ret'.res.val.id = id
           /\ ((\E p \in Payloads : updateStudent(id, p)) \/ (\E p \in CgpaPayloads : updateGrade(id, p))))
          => /\ "updatedAt" \in DOMAIN students'[id]
             /\ "updatedAt" \in DOMAIN ret'.res.val
             /\ students'[id].updatedAt >= students'[id].createdAt
             /\ "updatedAt" \in DOMAIN students[id]
                => students'[id].updatedAt >= students[id].updatedAt]_vars

\* C8: while a record is stored under id, every step other than a
\* createStudent leaves its id, createdAt and lecturerId as they were, and
\* deleteStudentRecord returns the record with those same values.
C8_IdentityFieldsImmutable ==
    [][\A id \in DOMAIN students :
          /\ students[id].id = id
          /\ (id \in DOMAIN students' /\ ret'.op # "createStudent")
             => /\ students'[id].id = id
                /\ students'[id].createdAt = students[id].createdAt
                /\ students'[id].lecturerId = students[id].lecturerId
          /\ (ret'.op = "deleteStudentRecord" /\ deleteStudentRecord(id))
             => /\ ret'.res.tag = "Ok"
                /\ ret'.res.val.id = id
                /\ ret'.res.val.createdAt = students[id].createdAt
                /\ ret'.res.val.lecturerId = students[id].lecturerId]_vars

\* an updateGrade at time 1 has just succeeded on a record bob created at
\* time 0
C8_Witness ==
    /\ ret.op = "updateGrade"
    /\ ret.res.tag = "Ok"
    /\ time = 1
    /\ ret.res.val.createdAt = 0
    /\ ret.res.val.lecturerId = "bob"
    /\ students[ret.res.val.id].createdAt = 0

\* C9: a successful updateStudent(id, payload) puts the payload's name,
\* course, level and cgpa in the record stored under id, returns the stored
\* record (what getStudentById(id) returns next), updatedAt included, and
\* leaves every record stored under another id as it was.
C9_UpdateReplacesAndPersists ==
    [][\A id \in Ids, p \in Payloads :
          (ret'.op = "updateStudent" /\ ret'.res.tag = "Ok" /\ updateStudent(id, p))
          => /\ students'[id].name = p.name
             /\ students'[id].course = p.course
             /\ students'[id].level = p.level
             /\ students'[id].cgpa = p.cgpa
             /\ ret'.res.val = students'[id]
             /\ \A o \in DOMAIN students \ {id} :
                   o \in DOMAIN students' /\ students'[o] = students[o]
             /\ "updatedAt" \in DOMAIN ret'.res.val
             /\ ret'.res.val.updatedAt = time]_vars

\* C10: updateStudent(id, payload) fails with UserDoesNotExist when no
\* record is stored under id, and with CourseDoesNotExist when one is and
\* payload.course is non-empty and its lower-cased form is not in
\* COURSE_TYPES; either way the store is left as it was.
C10_UpdateStudentFailures ==
    [][\A id \in Ids, p \in Payloads :
          (ret'.op = "updateStudent" /\ updateStudent(id, p))
          => /\ id \notin DOMAIN students
                => /\ ret'.res.tag = "Err"
                   /\ ret'.res.kind = "UserDoesNotExist"
                   /\ students' = students
             /\ (id \in DOMAIN students /\ p.course # EmptyText /\ ~ValidCourse(p.course))
                => /\ ret'.res.tag = "Err"
                   /\ ret'.res.kind = "CourseDoesNotExist"
                   /\ students' = students]_vars

\* an updateStudent with the course "astronomy" has just been rejected on a
\* stored record, and id 2 holds no record
C10_Witness ==
    /\ ret.op = "updateStudent"
    /\ ret.res.tag = "Err"
    /\ ret.res.kind = "CourseDoesNotExist"
    /\ ret.res.about = astronomy
    /\ DOMAIN students = {1}

\* C11: a successful updateGrade(id, {cgpa}) sets the cgpa of the record
\* stored under id to the payload's and leaves its name, course, level, id,
\* createdAt and lecturerId, and every other record, as they were; on an id
\* with no record it fails with UserDoesNotExist and leaves the store alone.
C11_UpdateGradeFrame ==
    [][\A id \in Ids, p \in CgpaPayloads :
          (ret'.op = "updateGrade" /\ updateGrade(id, p))
          => IF id \in DOMAIN students
             THEN /\ ret'.res.tag = "Ok"
                  /\ DOMAIN students' = DOMAIN students
                  /\ students'[id].cgpa = p.cgpa
                  /\ ret'.res.val.cgpa = p.cgpa
                  /\ DOMAIN students'[id] \ {"updatedAt"} = DOMAIN students[id] \ {"updatedAt"}
                  /\ \A f \in DOMAIN students[id] \ {"cgpa", "updatedAt"} :
                        students'[id][f] = students[id][f] /\ ret'.res.val[f] = students[id][f]
                  /\ \A o \in DOMAIN students \ {id} : students'[o] = students[o]
             ELSE /\ ret'.res.tag = "Err"
                  /\ ret'.res.kind = "UserDoesNotExist"
                  /\ students' = students]_vars

\* an updateGrade has just raised the cgpa of the record created as
\* ("Jo", "Medicine", 1, 3) to 9 while another record is stored
C11_Witness ==
    /\ ret.op = "updateGrade"
    /\ ret.res.tag = "Ok"
    /\ ret.res.val.cgpa = N(9)
    /\ ret.res.val.name = "Jo"
    /\ ret.res.val.course = Medicine
    /\ ret.res.val.level = 1
    /\ DOMAIN students = {1, 2}
    /\ students[ret.res.val.id].cgpa = N(9)

\* C12: deleteStudentRecord(id) on a stored id returns the record stored
\* under id before the call and removes that record and no other; on an id
\* with no record it fails with UserDoesNotExist and leaves the store alone.
C12_DeleteFrame ==
    [][\A id \in Ids :
          (ret'.op = "deleteStudentRecord" /\ deleteStudentRecord(id))
          => IF id \in DOMAIN students
             THEN /\ ret'.res = Ok(students[id])
                  /\ DOMAIN students' = DOMAIN students \ {id}
                  /\ \A o \in DOMAIN students \ {id} : students'[o] = students[o]
             ELSE /\ ret'.res.tag = "Err"
                  /\ ret'.res.kind = "UserDoesNotExist"
                  /\ ret'.res.about = id
                  /\ students' = students]_vars

\* a delete has just returned the record of id 1 and the record of id 2 is
\* still stored
C12_Witness ==
    /\ ret.op = "deleteStudentRecord"
    /\ ret.res.tag = "Ok"
    /\ ret.res.val.id = 1
    /\ ret.res.val.course = farming
    /\ DOMAIN students = {2}

\* C13: getTopStudents(count) fails, with UserDoesNotExist, exactly when the
\* store is empty or count is zero; when count is at least the population of
\* a non-empty store it returns every stored record.
C13_TopFailsOnlyWhenEmpty ==
    [][\A count \in Counts :
          (ret'.op = "getTopStudents" /\ getTopStudents(count))
          => LET n == Cardinality(DOMAIN students)
             IN /\ (ret'.res.tag = "Err") <=> (n = 0 \/ count = N(0))
                /\ ret'.res.tag = "Err" => ret'.res.kind = "UserDoesNotExist"
                /\ (n > 0 /\ (count.hi > 0 \/ count.lo >= n))
                   => /\ ret'.res.tag = "Ok"
                      /\ Len(ret'.res.val) = n
                      /\ {ret'.res.val[i] : i \in 1..n} = {students[id] : id \in DOMAIN students}]_vars

\* a getTopStudents whose count exceeds the population has just returned all
\* three stored records
C13_Witness ==
    /\ ret.op = "getTopStudents"
    /\ ret.res.tag = "Ok"
    /\ Cardinality(DOMAIN students) = 3
    /\ Len(ret.res.val) = 3

\* C14: getAllStudents fails, with UserDoesNotExist "No students found",
\* exactly when the store is empty, and otherwise returns each stored record
\* exactly once and nothing else; a record enters the store only by a
\* successful createStudent, leaves it only by a successful
\* deleteStudentRecord, and changes only to the record a successful create or
\* update on its id returned.
C14_GetAllReturnsStore ==
    [][/\ (ret'.op = "getAllStudents" /\ getAllStudents)
          => IF students = <<>>
             THEN ret'.res = Err("UserDoesNotExist", "No students found")
             ELSE /\ ret'.res.tag = "Ok"
                  /\ Len(ret'.res.val) = Cardinality(DOMAIN students)
                  /\ \A i \in DOMAIN ret'.res.val :
                        /\ ret'.res.val[i].id \in DOMAIN students
                        /\ ret'.res.val[i] = students[ret'.res.val[i].id]
                  /\ \A id \in DOMAIN students :
                        Cardinality({i \in DOMAIN ret'.res.val : ret'.res.val[i] = students[id]}) = 1
       /\ \A id \in Ids :
             /\ (id \in DOMAIN students' /\ id \notin DOMAIN students)
                => /\ ret'.op = "createStudent" /\ ret'.res.tag = "Ok"
                   /\ students'[id] = ret'.res.val
             /\ (id \in DOMAIN students /\ id \notin DOMAIN students')
                => /\ ret'.op = "deleteStudentRecord" /\ ret'.res.tag = "Ok"
                   /\ ret'.res.val.id = id
             /\ (id \in DOMAIN students /\ id \in DOMAIN students' /\ students'[id] # students[id])
                => /\ ret'.op \in {"createStudent", "updateStudent", "updateGrade"}
                   /\ ret'.res.tag = "Ok"
                   /\ students'[id] = ret'.res.val]_vars

\* getAllStudents has just returned two records, the first in the form an
\* updateStudent gave it
C14_Witness ==
    /\ ret.op = "getAllStudents"
    /\ ret.res.tag = "Ok"
    /\ Len(ret.res.val) = 2
    /\ ret.res.val[1].name = "Al"
    /\ ret.res.val[1] = students[1]
    /\ ret.res.val[2] = students[2]

\* C15: when createStudent draws an id that was never drawn before and
\* succeeds, the key of the new record was neither in the store nor ever
\* drawn (so it is no deleted record's id), exactly that key is added, and
\* every record stored before is unchanged; every stored key has been drawn,
\* drawn ids are never forgotten, and each record is stored under its own id.
C15_FreshIdsNeverOverwrite ==
    [][/\ \A id \in Ids \ issued, p \in Payloads, caller \in Callers :
             (/\ ret'.op = "createStudent"
              /\ ret'.res.tag = "Ok"
              /\ createStudent(id, p.name, p.course, p.level, p.cgpa, caller))
             => LET k == ret'.res.val.id
                IN /\ k \notin DOMAIN students
                   /\ k \notin issued
                   /\ DOMAIN students' = DOMAIN students \cup {k}
                   /\ students'[k] = ret'.res.val
                   /\ \A o \in DOMAIN students : students'[o] = students[o]
       /\ DOMAIN students' \subseteq issued'
       /\ issued \subseteq issued'
       /\ \A k \in DOMAIN students' : students'[k].id = k]_vars

\* createStudent has just stored a record under id 2 while id 1, drawn
\* earlier, is no longer in the store
C15_Witness ==
    /\ ret.op = "createStudent"
    /\ ret.res.tag = "Ok"
    /\ ret.res.val.id = 2
    /\ ret.res.val.createdAt = 1
    /\ issued = {1, 2}
    /\ DOMAIN students = {2}

\* C16: every stored record has a non-empty name.
C16_StoredNameNonEmpty ==
    \A id \in DOMAIN students : students[id].name # ""

\* the query operations
Queries == {"getStudentById", "getAllStudents", "getTopStudents"}

\* C17: a step of getStudentById, getAllStudents or getTopStudents leaves the
\* store as it was; getStudentById on a stored id returns exactly the stored
\* record; and getStudentById(id) right after a getStudentById(id), with no
\* call in between, returns the same result.
C17_QueriesLeaveStore ==
    [][/\ ret'.op \in Queries => students' = students
       /\ \A id \in Ids :
             (ret'.op = "getStudentById" /\ getStudentById(id))
             => /\ id \in DOMAIN students => ret'.res = Ok(students[id])
                /\ (/\ ret.op = "getStudentById"
                    /\ \/ ret.res.tag = "Ok" /\ ret.res.val.id = id
                       \/ ret.res.tag = "Err" /\ ret.res.about = id)
                   => ret'.res = ret.res]_vars

\* getStudentById has just returned the stored record of id 2, an updated
\* one, while the store holds two records
C17_Witness ==
    /\ ret.op = "getStudentById"
    /\ ret.res.tag = "Ok"
    /\ DOMAIN students = {1, 2}
    /\ ret.res.val = students[2]
    /\ ret.res.val.name = "Al"
    /\ ret.res.val.cgpa = N(9)

\* C18: in a successful getTopStudents reply, records of equal cgpa stand in
\* ascending key order, and a stored record of the same cgpa as a returned
\* one but a smaller key is returned too; a getTopStudents right after a
\* getTopStudents on the same store that returns as many records returns
\* the same sequence.
C18_TopStableAndDeterministic ==
    [][\A count \in Counts :
          (ret'.op = "getTopStudents" /\ ret'.res.tag = "Ok" /\ getTopStudents(count))
          => LET top == ret'.res.val
             IN /\ \A i, j \in DOMAIN top :
                      (i < j /\ top[i].cgpa = top[j].cgpa) => top[i].id < top[j].id
                /\ \A i \in DOMAIN top, id \in DOMAIN students :
                      (students[id].cgpa = top[i].cgpa /\ id < top[i].id)
                      => \E j \in DOMAIN top : j < i /\ top[j] = students[id]
                /\ (ret.op = "getTopStudents" /\ ret.res.tag = "Ok" /\ Len(ret.res.val) = Len(top))
                   => top = ret.res.val]_vars

\* getTopStudents(2) has just returned records 2 and 3, of equal cgpa, in
\* that order and ahead of record 1
C18_Witness ==
    /\ ret.op = "getTopStudents"
    /\ ret.res.tag = "Ok"
    /\ DOMAIN students = {1, 2, 3}
    /\ students[1].cgpa = N(3)
    /\ Len(ret.res.val) = 2
    /\ ret.res.val[1].id = 2 /\ ret.res.val[1].cgpa = N(9)
    /\ ret.res.val[2].id = 3 /\ ret.res.val[2].cgpa = N(9)

\* the error kinds the interface lists for each operation
ListedErrors ==
    [createStudent       |-> {"CourseDoesNotExist"},
     getAllStudents      |-> {"UserDoesNotExist"},
     updateStudent       |-> {"UserDoesNotExist", "CourseDoesNotExist"},
     getStudentById      |-> {"UserDoesNotExist"},
     deleteStudentRecord |-> {"UserDoesNotExist"},
     updateGrade         |-> {"UserDoesNotExist"},
     getTopStudents      |-> {"UserDoesNotExist"}]

\* C20: every call ends in Ok or in Err with an error kind listed for its
\* operation, and updateStudent on an id that holds no record with a course
\* that is not valid ends in UserDoesNotExist.
C20_OnlyListedErrors ==
    [][/\ ret'.op # "none"
          => /\ ret'.op \in DOMAIN ListedErrors
             /\ ret'.res.tag \in {"Ok", "Err"}
             /\ ret'.res.tag = "Err" => ret'.res.kind \in ListedErrors[ret'.op]
       /\ \A id \in Ids \ DOMAIN students, p \in Payloads :
             (ret'.op = "updateStudent" /\ ~ValidCourse(p.course) /\ updateStudent(id, p))
             => ret'.res.tag = "Err" /\ ret'.res.kind = "UserDoesNotExist"]_vars

\* an updateStudent on id 2, which holds no record, has just been answered
\* with UserDoesNotExist while id 1 holds one
C20_Witness ==
    /\ ret.op = "updateStudent"
    /\ ret.res.tag = "Err"
    /\ ret.res.kind = "UserDoesNotExist"
    /\ ret.res.about = 2
    /\ DOMAIN students = {1}

\* C19: of update calls sent at once, the step in which one finishes is a
\* step of its handler run from first line to return on the store of that
\* moment, so the calls take effect in the order in which they finish; an
\* update never puts back a record that is no longer stored, and an
\* updateGrade leaves the name, course and level of the stored record alone.
C19_CallsTakeEffectSerially ==
    [][\A c \in CallIds :
          (calls[c].pc \in {"sent", "got"} /\ calls'[c].pc = "done")
          => LET id == calls[c].id
                 op == calls[c].op
             IN /\ op = "updateStudent" => updateStudent(id, calls[c].payload)
                /\ op = "updateGrade" => updateGrade(id, calls[c].payload)
                /\ op = "deleteStudentRecord" => deleteStudentRecord(id)
                /\ id \notin DOMAIN students => id \notin DOMAIN students'
                /\ (op = "updateGrade" /\ id \in DOMAIN students)
                   => \A f \in {"name", "course", "level"} : students'[id][f] = students[id][f]]_vars

\* an updateStudent and an updateGrade sent together have both finished, the
\* record carries the new name and level of the one and the cgpa of the
\* other, and a deleteStudentRecord sent with them is still queued
C19_Witness ==
    /\ \E c, d, e \in CallIds :
          /\ calls[c].pc = "done" /\ calls[c].op = "updateStudent"
          /\ calls[d].pc = "done" /\ calls[d].op = "updateGrade"
          /\ calls[e].pc = "sent" /\ calls[e].op = "deleteStudentRecord"
    /\ 1 \in DOMAIN students
    /\ students[1].name = "Al"
    /\ students[1].level = 2
    /\ students[1].cgpa = N(9)

====
